---- MODULE Spec2Model ----
(***************************************************************************)
(* Appointment scheduling core of the barbershop backend                   *)
(* (src/backend/server.py): the appointment store, the conflict query of   *)
(* create_appointment, update_appointment_status and the slot generator    *)
(* get_barber_availability; further register_user, update_service and     *)
(* get_appointments, the reviews of reviews.py and the notifications of    *)
(* notifications.py as far as they read or write appointments.             *)
(*                                                                         *)
(* Instants are whole minutes on an abstract calendar whose day 0 is a     *)
(* Sunday; a datetime is the number of minutes since day 0, 00:00.         *)
(* Collections are sequences in insertion order; a document's _id is its   *)
(* index in the collection (appointments, notifications), its key (users,  *)
(* barbers, services) or a field of the document (reviews, of which        *)
(* documents are deleted).                                                 *)
(***************************************************************************)
EXTENDS Integers, Sequences, FiniteSets, TLC

VARIABLES users, barbers, services, appointments, reviews, notifications, last, pc, req,
          service, resp

vars == <<users, barbers, services, appointments, reviews, notifications, last, pc, req,
         service, resp>>

-----------------------------------------------------------------------------
(* Bounds of the model *)

MaxAppts == 2

-----------------------------------------------------------------------------
(* Program constants *)

SlotMinutes == 30

DefaultDuration == 60

MsPerMinute == 60000

MinutesPerDay == 24 * 60

PENDING == "pending"

CONFIRMED == "confirmed"

COMPLETED == "completed"

CANCELLED == "cancelled"

ADMIN == "admin"

BARBER == "barber"

CLIENT == "client"

\* Python's None / a find_one that matched nothing
None == [none |-> TRUE]

-----------------------------------------------------------------------------
(* Dates and times *)

WeekdayNames == <<"sunday", "monday", "tuesday", "wednesday", "thursday", "friday", "saturday">>

\* target_date.strftime("%A").lower()
DayName(date) == WeekdayNames[(date % 7) + 1]

\* datetime.combine(target_date, time): minutes since day 0
Combine(date, minutes) == date * MinutesPerDay + minutes

\* datetime.strptime(s, "%H:%M").time(); "HH:MM" is the pair <<HH, MM>>
ParseHM(hm) == hm[1] * 60 + hm[2]

\* datetime.isoformat(): the date, hour and minute fields of the instant
IsoFormat(t) == <<t \div MinutesPerDay, (t % MinutesPerDay) \div 60, t % 60>>

\* pydantic's parse of an ISO-8601 datetime in the request body
ParseDatetime(iso) == iso[1] * MinutesPerDay + iso[2] * 60 + iso[3]

\* datetime.date() of an instant
DateOf(t) == t \div MinutesPerDay

-----------------------------------------------------------------------------
(* MongoDB aggregation expressions used by the conflict query *)

BNull == [type |-> "null"]

BNum(n) == [type |-> "number", v |-> n]

BDate(ms) == [type |-> "date", v |-> ms]

\* BSON comparison order of the types involved: Null < Numbers < Date
BsonTypeOrder(x) == CASE x.type = "null" -> 2
                      [] x.type = "number" -> 3
                      [] x.type = "date" -> 10

\* a field path "$f": the field's value, or null when the document lacks it
FieldPath(doc, f) == IF f \notin DOMAIN doc THEN BNull
                     ELSE IF f = "scheduled_at" THEN BDate(doc[f] * MsPerMinute)
                     ELSE BNum(doc[f])

\* $multiply: null if any operand is null or missing
AggMultiply(a, b) == IF a.type = "null" \/ b.type = "null" THEN BNull
                     ELSE BNum(a.v * b.v)

\* $add: null if any operand is null or missing; date + number is a date
AggAdd(a, b) == IF a.type = "null" \/ b.type = "null" THEN BNull
                ELSE IF a.type = "date" \/ b.type = "date" THEN BDate(a.v + b.v)
                ELSE BNum(a.v + b.v)

\* mutant of AggGt: null ordered above every other type
AggGtNullGreatest(a, b) == IF a.type = "null" \/ b.type = "null" THEN a.type = "null"
                           ELSE a.v > b.v

\* $gt: compares value and type, by the BSON comparison order
AggGt(a, b) == IF BsonTypeOrder(a) # BsonTypeOrder(b)
               THEN BsonTypeOrder(a) > BsonTypeOrder(b)
               ELSE a.type # "null" /\ a.v > b.v


-----------------------------------------------------------------------------
(* Errors *)

HTTPException(status_code, detail) == [status_code |-> status_code, detail |-> detail]

\* except Exception as e: raise HTTPException(status_code=400, detail=str(e))
\* str(e) of an HTTPException is "<status_code>: <detail>", the pair here
Reraise(e) == HTTPException(400, <<e.status_code, e.detail>>)

-----------------------------------------------------------------------------
(* Lookups by primary key *)

\* db.services.find_one({"_id": ObjectId(service_id)})
FindService(service_id) == IF service_id \in DOMAIN services THEN services[service_id] ELSE None

\* db.barbers.find_one({"_id": ObjectId(barber_id)})
FindBarber(barber_id) == IF barber_id \in DOMAIN barbers THEN barbers[barber_id] ELSE None

\* db.barbers.find_one({"user_id": str(current_user.id)}): the profile's _id
FindBarberIdByUser(user_id) == IF \E b \in DOMAIN barbers : barbers[b].user_id = user_id
                               THEN CHOOSE b \in DOMAIN barbers : barbers[b].user_id = user_id
                               ELSE "none"

-----------------------------------------------------------------------------
(* create_appointment *)

\* AppointmentCreate: the validated request body
AppointmentCreate(body) == [client_id |-> body.client_id,
                            barber_id |-> body.barber_id,
                            service_id |-> body.service_id,
                            scheduled_at |-> ParseDatetime(body.scheduled_at)]

\* appointment_end = scheduled_at + timedelta(minutes=service["duration_minutes"])
AppointmentEnd(appointment_data, svc) == appointment_data.scheduled_at + svc.duration_minutes

\* the $expr clause: $scheduled_at + $duration_minutes * 60000 > scheduled_at
ExprClause(doc, appointment_data) ==
    AggGt(AggAdd(FieldPath(doc, "scheduled_at"),
                 AggMultiply(FieldPath(doc, "duration_minutes"), BNum(MsPerMinute))),
          BDate(appointment_data.scheduled_at * MsPerMinute))

\* mutant of ConflictFilter: the overlap is tested on the service's duration
\* and the status clause is left out
ConflictFilterAnyStatus(doc, appointment_data, appointment_end) ==
    /\ doc.barber_id = appointment_data.barber_id
    /\ doc.scheduled_at < appointment_end
    /\ doc.scheduled_at + services[doc.service_id].duration_minutes
         > appointment_data.scheduled_at

\* the filter of the conflict query
ConflictFilter(doc, appointment_data, appointment_end) ==
    /\ doc.barber_id = appointment_data.barber_id
    /\ doc.scheduled_at < appointment_end
    /\ doc.status \in {PENDING, CONFIRMED}
    /\ ExprClause(doc, appointment_data)

\* db.appointments.find_one(filter): the first matching document, or None
FindConflict(appointment_data, appointment_end) ==
    LET matching == {i \in DOMAIN appointments :
                        ConflictFilter(appointments[i], appointment_data, appointment_end)}
    IN IF matching = {} THEN None
       ELSE appointments[CHOOSE i \in matching : \A j \in matching : i <= j]

\* mutant of AppointmentDict: the price is not taken from the service
AppointmentDictNoSnapshot(appointment_data, svc) == [client_id |-> appointment_data.client_id,
                                                     barber_id |-> appointment_data.barber_id,
                                                     service_id |-> appointment_data.service_id,
                                                     scheduled_at |-> appointment_data.scheduled_at,
                                                     total_price |-> 0,
                                                     status |-> PENDING]

\* appointment_dict: the request's fields, the price snapshot and the status
AppointmentDict(appointment_data, svc) == [client_id |-> appointment_data.client_id,
                                           barber_id |-> appointment_data.barber_id,
                                           service_id |-> appointment_data.service_id,
                                           scheduled_at |-> appointment_data.scheduled_at,
                                           total_price |-> svc.price,
                                           status |-> PENDING]

\* the handler's outcome on the current store: the error it raises, or None
CreateError(appointment_data) ==
    LET svc == FindService(appointment_data.service_id)
    IN IF svc = None
       THEN Reraise(HTTPException(404, "Servicio no encontrado"))
       ELSE IF FindBarber(appointment_data.barber_id) = None
       THEN Reraise(HTTPException(404, "Barbero no encontrado"))
       ELSE IF FindConflict(appointment_data, AppointmentEnd(appointment_data, svc)) # None
       THEN Reraise(HTTPException(400, "El barbero no esta disponible en ese horario"))
       ELSE None

\* whether the start was offered by the availability response just before
Offered(body) == /\ last.op = "availability"
                 /\ last.status_code = 200
                 /\ last.barber_id = body.barber_id
                 /\ \E k \in DOMAIN last.slots : last.slots[k] = body.scheduled_at

\* POST /api/appointments, one request handled without interleaving
CreateAppointment(body) ==
    LET appointment_data == AppointmentCreate(body)
        error == CreateError(appointment_data)
    IN /\ \A p \in DOMAIN pc : pc[p] = "idle"
       /\ IF error = None
          THEN /\ Len(appointments) < MaxAppts
               /\ appointments' = Append(appointments,
                      AppointmentDict(appointment_data, FindService(appointment_data.service_id)))
               /\ last' = [op |-> "create", body |-> body, offered |-> Offered(body),
                           status_code |-> 200, id |-> Len(appointments) + 1]
          ELSE /\ appointments' = appointments
               /\ last' = [op |-> "create", body |-> body, offered |-> Offered(body),
                           status_code |-> error.status_code, detail |-> error.detail]
       /\ UNCHANGED <<users, barbers, services, reviews, notifications, pc, req, service, resp>>

-----------------------------------------------------------------------------
(* update_appointment_status *)

\* status = status_data.get("status"); `not status`: the key is absent or empty
NotStatus(status_data) == "status" \notin DOMAIN status_data \/ status_data.status = ""

\* mutant of valid_statuses: a fifth value is accepted
valid_statuses_done == {PENDING, CONFIRMED, COMPLETED, CANCELLED, "done"}

valid_statuses == {PENDING, CONFIRMED, COMPLETED, CANCELLED}

\* the can_update decision for the actor current_user on the appointment
CanUpdate(user_id, appointment) ==
    LET current_user == users[user_id]
    IN IF current_user.role = ADMIN THEN TRUE
       ELSE IF current_user.role = CLIENT /\ appointment.client_id = user_id THEN TRUE
       ELSE IF current_user.role = BARBER
       THEN appointment.barber_id = FindBarberIdByUser(user_id)
       ELSE FALSE

\* mutant of StatusError: setting pending or confirmed is refused while another
\* pending or confirmed appointment of the barber overlaps
StatusErrorConflictChecked(appointment_id, status_data, user_id) ==
    IF NotStatus(status_data)
       THEN Reraise(HTTPException(400, "Status is required"))
       ELSE IF status_data.status \notin valid_statuses
       THEN Reraise(HTTPException(400, "Estado invalido"))
       ELSE IF appointment_id \notin DOMAIN appointments
       THEN Reraise(HTTPException(404, "Cita no encontrada"))
       ELSE IF ~CanUpdate(user_id, appointments[appointment_id])
       THEN Reraise(HTTPException(403, "No autorizado"))
       ELSE IF /\ status_data.status \in {PENDING, CONFIRMED}
               /\ \E j \in DOMAIN appointments :
                     /\ j # appointment_id
                     /\ appointments[j].barber_id = appointments[appointment_id].barber_id
                     /\ appointments[j].status \in {PENDING, CONFIRMED}
                     /\ appointments[j].scheduled_at
                           < appointments[appointment_id].scheduled_at
                             + services[appointments[appointment_id].service_id].duration_minutes
                     /\ appointments[appointment_id].scheduled_at
                           < appointments[j].scheduled_at
                             + services[appointments[j].service_id].duration_minutes
       THEN Reraise(HTTPException(400, "El barbero no esta disponible en ese horario"))
       ELSE None

\* the error the handler raises on the current store, or None
StatusError(appointment_id, status_data, user_id) ==
    IF NotStatus(status_data)
       THEN Reraise(HTTPException(400, "Status is required"))
       ELSE IF status_data.status \notin valid_statuses
       THEN Reraise(HTTPException(400, "Estado invalido"))
       ELSE IF appointment_id \notin DOMAIN appointments
       THEN Reraise(HTTPException(404, "Cita no encontrada"))
       ELSE IF ~CanUpdate(user_id, appointments[appointment_id])
       THEN Reraise(HTTPException(403, "No autorizado"))
       ELSE None

\* mutant of StatusUpdate: the status is written to every appointment of the
\* same client
StatusUpdateMany(appointment_id, status) ==
    [i \in DOMAIN appointments |->
        IF appointments[i].client_id = appointments[appointment_id].client_id
        THEN [appointments[i] EXCEPT !.status = status]
        ELSE appointments[i]]

\* db.appointments.update_one({"_id": ...}, {"$set": {"status": status, ...}}):
\* the collection after it (updated_at is left out)
StatusUpdate(appointment_id, status) ==
    [appointments EXCEPT ![appointment_id].status = status]

\* PUT /api/appointments/{appointment_id}/status.  The document read for the
\* authorization check cannot be removed and its client_id and barber_id are
\* never rewritten, so the read and the update_one are taken as one step.
UpdateAppointmentStatus(appointment_id, status_data, user_id) ==
    LET error == StatusError(appointment_id, status_data, user_id)
    IN /\ \A p \in DOMAIN pc : pc[p] = "idle"
       /\ IF error = None
          THEN /\ appointments' = StatusUpdate(appointment_id, status_data.status)
               /\ last' = [op |-> "status", appointment_id |-> appointment_id,
                           status_data |-> status_data, user_id |-> user_id,
                           status_code |-> 200]
          ELSE /\ appointments' = appointments
               /\ last' = [op |-> "status", appointment_id |-> appointment_id,
                           status_data |-> status_data, user_id |-> user_id,
                           status_code |-> error.status_code, detail |-> error.detail]
       /\ UNCHANGED <<users, barbers, services, reviews, notifications, pc, req, service, resp>>

-----------------------------------------------------------------------------
(* get_barber_availability *)

\* mutant of DaySchedule: a day without a window gets the hours 09:00 to 17:00
DayScheduleDefault(barber, day_name) == IF day_name \in DOMAIN barber.schedule
                                        THEN barber.schedule[day_name]
                                        ELSE [start |-> <<9, 0>>, end |-> <<17, 0>>]

\* barber.get("schedule", {}).get(day_name)
DaySchedule(barber, day_name) == IF day_name \in DOMAIN barber.schedule
                                 THEN barber.schedule[day_name] ELSE None

\* the filter of the day-bounded query; end_of_day is 23:59:59.999999, and
\* instants are whole minutes, so "$lte end_of_day" is "before the next day"
DayFilter(doc, barber_id, target_date) ==
    /\ doc.barber_id = barber_id
    /\ doc.scheduled_at >= Combine(target_date, 0)
    /\ doc.scheduled_at < Combine(target_date, 0) + MinutesPerDay
    /\ doc.status \in {PENDING, CONFIRMED}

\* the ids the cursor yields
Fetched(barber_id, target_date) ==
    {i \in DOMAIN appointments : DayFilter(appointments[i], barber_id, target_date)}

\* the orders in which a find() without sort may yield them
CursorOrders(ids) == {o \in [1..Cardinality(ids) -> ids] :
                         \A i, j \in 1..Cardinality(ids) : i # j => o[i] # o[j]}

\* mutant of Duration: every appointment is taken to last one slot
DurationOneSlot(appointment) == SlotMinutes

\* duration = service["duration_minutes"] if service else 60
Duration(appointment) == LET svc == FindService(appointment.service_id)
                         IN IF svc # None THEN svc.duration_minutes ELSE DefaultDuration

\* the list `appointments` of {"start", "end"} built from the cursor
BusyList(order) == [k \in DOMAIN order |->
                       [start |-> appointments[order[k]].scheduled_at,
                        end |-> appointments[order[k]].scheduled_at
                                  + Duration(appointments[order[k]])]]

\* the condition of the inner loop's if
SlotConflicts(current_slot, slot_end, appointment) ==
    current_slot < appointment.end /\ slot_end > appointment.start

\* mutant of IsAvailable: no break, the last appointment scanned decides
IsAvailableLastWins(busy, current_slot, slot_end) ==
    IF busy = <<>> THEN TRUE
    ELSE ~SlotConflicts(current_slot, slot_end, busy[Len(busy)])

RECURSIVE IsAvailable(_, _, _)
\* the inner for loop: is_available after scanning the busy list
IsAvailable(busy, current_slot, slot_end) ==
    IF busy = <<>> THEN TRUE
    ELSE IF SlotConflicts(current_slot, slot_end, Head(busy)) THEN FALSE
    ELSE IsAvailable(Tail(busy), current_slot, slot_end)

\* mutant of LoopContinues: the closing instant is still a candidate
LoopContinuesInclusive(current_slot, end_datetime) == current_slot <= end_datetime

\* the condition of the while loop
LoopContinues(current_slot, end_datetime) == current_slot < end_datetime

RECURSIVE SlotLoopNoClock(_, _, _, _)
\* mutant of SlotLoop: the start is not compared with the clock
SlotLoopNoClock(current_slot, end_datetime, busy, now) ==
    IF LoopContinues(current_slot, end_datetime)
    THEN (IF IsAvailable(busy, current_slot, current_slot + SlotMinutes)
          THEN <<IsoFormat(current_slot)>> ELSE <<>>)
         \o SlotLoopNoClock(current_slot + SlotMinutes, end_datetime, busy, now)
    ELSE <<>>

RECURSIVE SlotLoop(_, _, _, _)
\* the while loop: the available_slots appended from current_slot on
SlotLoop(current_slot, end_datetime, busy, now) ==
    IF LoopContinues(current_slot, end_datetime)
    THEN (IF IsAvailable(busy, current_slot, current_slot + SlotMinutes) /\ current_slot > now
          THEN <<IsoFormat(current_slot)>> ELSE <<>>)
         \o SlotLoop(current_slot + SlotMinutes, end_datetime, busy, now)
    ELSE <<>>

\* available_slots for a barber document with a window on that weekday
AvailableSlots(day_schedule, target_date, order, now) ==
    SlotLoop(Combine(target_date, ParseHM(day_schedule.start)),
             Combine(target_date, ParseHM(day_schedule.end)),
             BusyList(order), now)

\* the slots of the response just before, when that was the same query at the
\* same clock instant (history kept for comparing two successive responses)
PreviousSlots(barber_id, target_date, now) ==
    IF /\ last.op = "availability"
       /\ last.status_code = 200
       /\ last.barber_id = barber_id
       /\ last.date = target_date
       /\ last.now = now
    THEN {last.slots} ELSE {}

\* GET /api/barbers/{barber_id}/availability?date=..., answered at clock
\* instant now with the cursor yielding the day's appointments in `order`
GetBarberAvailability(barber_id, target_date, now, order) ==
    LET barber == FindBarber(barber_id)
        day_schedule == DaySchedule(barber, DayName(target_date))
        call == [op |-> "availability", barber_id |-> barber_id,
                 date |-> target_date, now |-> now,
                 previous |-> PreviousSlots(barber_id, target_date, now)]
    IN /\ \A p \in DOMAIN pc : pc[p] = "idle"
       /\ order \in CursorOrders(Fetched(barber_id, target_date))
       /\ IF barber = None
          THEN last' = call @@ Reraise(HTTPException(404, "Barbero no encontrado"))
          ELSE IF day_schedule = None
          THEN last' = call @@ [status_code |-> 200, slots |-> <<>>]
          ELSE last' = call @@ [status_code |-> 200,
                                slots |-> AvailableSlots(day_schedule, target_date, order, now)]
       /\ UNCHANGED <<users, barbers, services, reviews, notifications, appointments, pc, req, service, resp>>

-----------------------------------------------------------------------------
(* Initial state: the admin, two clients and two barbers are registered,   *)
(* the barbers have set their weekly schedules, the default services of    *)
(* startup_db exist and nothing is booked yet.                             *)

Procs == {"r1", "r2"}

Init ==
    /\ users = [ua |-> [role |-> ADMIN, phone |-> "+1234567890"],
                c1 |-> [role |-> CLIENT, phone |-> "091"],
                c2 |-> [role |-> CLIENT, phone |-> "092"],
                ub1 |-> [role |-> BARBER, phone |-> "093"],
                ub2 |-> [role |-> BARBER, phone |-> "094"]]
    /\ barbers = [b1 |-> [user_id |-> "ub1",
                          schedule |-> [monday |-> [start |-> <<9, 0>>, end |-> <<17, 0>>],
                                        tuesday |-> [start |-> <<0, 0>>, end |-> <<2, 0>>]]],
                  b2 |-> [user_id |-> "ub2",
                          schedule |-> [monday |-> [start |-> <<9, 0>>, end |-> <<10, 15>>]]]]
    /\ services = [s1 |-> [duration_minutes |-> 30, price |-> 25, active |-> TRUE],
                   s2 |-> [duration_minutes |-> 45, price |-> 35, active |-> TRUE]]
    /\ appointments = <<>>
    /\ reviews = <<>>
    /\ notifications = <<>>
    /\ last = [op |-> "none"]
    /\ pc = [p \in Procs |-> "idle"]
    /\ req = [p \in Procs |-> None]
    /\ service = [p \in Procs |-> None]
    /\ resp = [p \in Procs |-> None]

-----------------------------------------------------------------------------
(* Inputs *)

Booking(barber_id, service_id, scheduled_at) ==
    [client_id |-> "c1", barber_id |-> barber_id, service_id |-> service_id,
     scheduled_at |-> scheduled_at]

\* request bodies: Monday is day 1
Bookings == {Booking("b1", "s1", <<1, 9, 30>>), Booking("b1", "s1", <<1, 9, 31>>),
             Booking("b1", "s2", <<1, 10, 0>>),
             Booking("b1", "s2", <<1, 23, 30>>), Booking("b2", "s2", <<1, 10, 0>>),
             Booking("b9", "s1", <<1, 9, 30>>), Booking("b1", "s9", <<1, 9, 30>>)}

StatusRequest(appointment_id, status_data, user_id) ==
    [appointment_id |-> appointment_id, status_data |-> status_data, user_id |-> user_id]

\* status requests: the admin sets any of the four values on any appointment;
\* on appointment 1 also its owner cancels, a client who is not its owner
\* confirms, and the admin sends a value outside the valid set
StatusRequests ==
    {StatusRequest(id, [status |-> s], "ua") : id \in 1..MaxAppts, s \in valid_statuses}
    \cup {StatusRequest(1, [status |-> CANCELLED], "c1"),
          StatusRequest(1, [status |-> CONFIRMED], "c2"),
          StatusRequest(1, [status |-> "done"], "ua")}

AvailabilityQuery(barber_id, date, now) == [barber_id |-> barber_id, date |-> date, now |-> now]

\* Sunday 12:00 and Monday 09:45
Instants == {12 * 60, MinutesPerDay + 9 * 60 + 45}

\* availability queries: Monday is day 1, Tuesday 2, Wednesday 3
AvailabilityQueries ==
    {AvailabilityQuery("b1", 1, now) : now \in Instants}
    \cup {AvailabilityQuery("b1", 2, 12 * 60), AvailabilityQuery("b1", 3, 12 * 60),
          AvailabilityQuery("b2", 1, 12 * 60), AvailabilityQuery("b9", 1, 12 * 60)}

Next ==
    \/ \E body \in Bookings : CreateAppointment(body)
    \/ \E r \in StatusRequests :
          UpdateAppointmentStatus(r.appointment_id, r.status_data, r.user_id)
    \/ \E q \in AvailabilityQueries :
          \E order \in CursorOrders(Fetched(q.barber_id, q.date)) :
             GetBarberAvailability(q.barber_id, q.date, q.now, order)

Spec == Init /\ [][Next]_vars

-----------------------------------------------------------------------------
(* create_appointment under concurrent requests: each await of the handler *)
(* is one step of the request's process, and other requests may run        *)
(* between two steps.  Each process sends one request.                     *)

\* requests being handled
InFlight == {p \in Procs : pc[p] \notin {"idle", "done"}}

\* the request arrives; `raced` records that another request was being
\* handled while this one was (history kept for stating the race)
CreateStart(p, body) ==
    /\ pc[p] = "idle"
    /\ pc' = [pc EXCEPT ![p] = "find_service"]
    /\ req' = [q \in Procs |->
                 IF q = p THEN AppointmentCreate(body) @@ [raced |-> InFlight # {}]
                 ELSE IF q \in InFlight THEN [req[q] EXCEPT !.raced = TRUE]
                 ELSE req[q]]
    /\ UNCHANGED <<users, barbers, services, reviews, notifications, appointments, last, service, resp>>

\* service = await db.services.find_one(...)
CreateFindService(p) ==
    /\ pc[p] = "find_service"
    /\ service' = [service EXCEPT ![p] = FindService(req[p].service_id)]
    /\ IF FindService(req[p].service_id) = None
       THEN /\ resp' = [resp EXCEPT ![p] = Reraise(HTTPException(404, "Servicio no encontrado"))]
            /\ pc' = [pc EXCEPT ![p] = "done"]
       ELSE /\ resp' = resp
            /\ pc' = [pc EXCEPT ![p] = "find_barber"]
    /\ UNCHANGED <<users, barbers, services, reviews, notifications, appointments, last, req>>

\* barber = await db.barbers.find_one(...)
CreateFindBarber(p) ==
    /\ pc[p] = "find_barber"
    /\ IF FindBarber(req[p].barber_id) = None
       THEN /\ resp' = [resp EXCEPT ![p] = Reraise(HTTPException(404, "Barbero no encontrado"))]
            /\ pc' = [pc EXCEPT ![p] = "done"]
       ELSE /\ resp' = resp
            /\ pc' = [pc EXCEPT ![p] = "find_conflict"]
    /\ UNCHANGED <<users, barbers, services, reviews, notifications, appointments, last, req, service>>

\* existing_appointment = await db.appointments.find_one(...)
CreateFindConflict(p) ==
    /\ pc[p] = "find_conflict"
    /\ IF FindConflict(req[p], AppointmentEnd(req[p], service[p])) # None
       THEN /\ resp' = [resp EXCEPT ![p] = Reraise(HTTPException(400,
                                    "El barbero no esta disponible en ese horario"))]
            /\ pc' = [pc EXCEPT ![p] = "done"]
       ELSE /\ resp' = resp
            /\ pc' = [pc EXCEPT ![p] = "insert_one"]
    /\ UNCHANGED <<users, barbers, services, reviews, notifications, appointments, last, req, service>>

\* result = await db.appointments.insert_one(appointment_dict)
CreateInsertOne(p) ==
    /\ pc[p] = "insert_one"
    /\ Len(appointments) < MaxAppts
    /\ appointments' = Append(appointments, AppointmentDict(req[p], service[p]))
    /\ resp' = [resp EXCEPT ![p] = [status_code |-> 200, id |-> Len(appointments) + 1]]
    /\ pc' = [pc EXCEPT ![p] = "done"]
    /\ UNCHANGED <<users, barbers, services, reviews, notifications, last, req, service>>

\* concurrent request bodies: Monday 10:00-10:45 and 10:00-10:30 with barber
\* b1, the former also with barber b2, an unknown service and an unknown barber
RaceBookings == {Booking("b1", "s2", <<1, 10, 0>>), Booking("b1", "s1", <<1, 10, 0>>),
                 Booking("b2", "s2", <<1, 10, 0>>),
                 Booking("b1", "s9", <<1, 10, 0>>), Booking("b9", "s1", <<1, 10, 0>>)}

NextRace ==
    \/ \E p \in Procs, body \in RaceBookings : CreateStart(p, body)
    \/ \E p \in Procs : CreateFindService(p)
    \/ \E p \in Procs : CreateFindBarber(p)
    \/ \E p \in Procs : CreateFindConflict(p)
    \/ \E p \in Procs : CreateInsertOne(p)

SpecRace == Init /\ [][NextRace]_vars

-----------------------------------------------------------------------------
(* Notions the properties are stated in *)

\* pending or confirmed: the statuses that hold the calendar
Active(doc) == doc.status \in {PENDING, CONFIRMED}

\* the occupied interval [scheduled_at, scheduled_at + service duration)
OccupiedEnd(doc) == doc.scheduled_at + services[doc.service_id].duration_minutes

\* half-open intervals [a, b) and [c, d) overlap
Overlaps(a, b, c, d) == a < d /\ c < b

\* the store a create request was handled on
PriorAppointments == IF last.op = "create" /\ last.status_code = 200
                     THEN SubSeq(appointments, 1, last.id - 1)
                     ELSE appointments

\* the last call was a create request whose service and barber resolved
ResolvedCreate == /\ last.op = "create"
                  /\ last.body.service_id \in DOMAIN services
                  /\ last.body.barber_id \in DOMAIN barbers

CandidateStart == ParseDatetime(last.body.scheduled_at)

CandidateEnd == CandidateStart + services[last.body.service_id].duration_minutes

\* some pending or confirmed appointment of the candidate's barber overlaps it
CandidateOverlaps ==
    \E i \in DOMAIN PriorAppointments :
        /\ Active(PriorAppointments[i])
        /\ PriorAppointments[i].barber_id = last.body.barber_id
        /\ Overlaps(CandidateStart, CandidateEnd,
                    PriorAppointments[i].scheduled_at, OccupiedEnd(PriorAppointments[i]))

\* the create request was refused as a scheduling conflict
ConflictRefused == /\ last.status_code = 400
                   /\ last.detail = <<400, "El barbero no esta disponible en ese horario">>

\* the create request succeeded and stored the requested appointment as pending
CreatedAsRequested ==
    /\ last.status_code = 200
    /\ Len(appointments) = Len(PriorAppointments) + 1
    /\ appointments[last.id].barber_id = last.body.barber_id
    /\ appointments[last.id].service_id = last.body.service_id
    /\ appointments[last.id].scheduled_at = CandidateStart
    /\ appointments[last.id].status = PENDING

\* [start, end) lies inside the barber's window of the weekday of start
InsideWindow(barber_id, start, end) ==
    LET day_schedule == DaySchedule(barbers[barber_id], DayName(DateOf(start)))
    IN /\ day_schedule # None
       /\ Combine(DateOf(start), ParseHM(day_schedule.start)) <= start
       /\ end <= Combine(DateOf(start), ParseHM(day_schedule.end))

-----------------------------------------------------------------------------
(* C1: for every staff member, any two distinct pending or confirmed       *)
(* appointments have non-overlapping occupied intervals, in every state.   *)

C1_NonOverlap ==
    \A i, j \in DOMAIN appointments :
        (/\ i # j
         /\ appointments[i].barber_id = appointments[j].barber_id
         /\ Active(appointments[i])
         /\ Active(appointments[j]))
        => ~Overlaps(appointments[i].scheduled_at, OccupiedEnd(appointments[i]),
                     appointments[j].scheduled_at, OccupiedEnd(appointments[j]))

-----------------------------------------------------------------------------
(* C3: a create request whose service and barber resolve is refused as a   *)
(* scheduling conflict exactly when its candidate interval overlaps, under *)
(* the half-open rule, a pending or confirmed appointment of the same      *)
(* staff member.                                                           *)

C3_ConflictIffOverlap == ResolvedCreate => (ConflictRefused <=> CandidateOverlaps)

-----------------------------------------------------------------------------
(* C7: a create request whose interval is not fully inside the staff       *)
(* member's working-hours window of that weekday is rejected and nothing   *)
(* is persisted.                                                           *)

C7_OutsideHoursRejected ==
    (ResolvedCreate /\ ~InsideWindow(last.body.barber_id, CandidateStart, CandidateEnd))
    => (last.status_code # 200 /\ appointments = PriorAppointments)

-----------------------------------------------------------------------------
(* C4: a start instant returned by the availability response is bookable   *)
(* by the create request that immediately follows it for that staff member *)
(* and an existing service: the request succeeds and stores the            *)
(* appointment.                                                            *)

C4_OfferedSlotBookable == (ResolvedCreate /\ last.offered) => CreatedAsRequested

\* an offered start was booked while the barber already had an active appointment
C4_Witness ==
    /\ ResolvedCreate
    /\ last.offered
    /\ CreatedAsRequested
    /\ \E i \in DOMAIN PriorAppointments :
          /\ Active(PriorAppointments[i])
          /\ PriorAppointments[i].barber_id = last.body.barber_id

-----------------------------------------------------------------------------
(* C5: no slot [t, t + 30) of an availability response overlaps the        *)
(* occupied interval of a pending or confirmed appointment of that staff   *)
(* member, whatever day the appointment starts on.                         *)

C5_NoSlotOverlapsActive ==
    (last.op = "availability" /\ last.status_code = 200)
    => \A k \in DOMAIN last.slots : \A i \in DOMAIN appointments :
          (Active(appointments[i]) /\ appointments[i].barber_id = last.barber_id)
          => ~Overlaps(ParseDatetime(last.slots[k]), ParseDatetime(last.slots[k]) + SlotMinutes,
                       appointments[i].scheduled_at, OccupiedEnd(appointments[i]))

-----------------------------------------------------------------------------
(* C6: once an appointment is cancelled, a create request for the same     *)
(* staff member and the same interval succeeds, provided no pending or     *)
(* confirmed appointment of that staff member overlaps it.                 *)

\* a cancelled appointment of the candidate's barber with the candidate's interval
CancelledTwin ==
    \E i \in DOMAIN PriorAppointments :
        /\ PriorAppointments[i].status = CANCELLED
        /\ PriorAppointments[i].barber_id = last.body.barber_id
        /\ PriorAppointments[i].scheduled_at = CandidateStart
        /\ OccupiedEnd(PriorAppointments[i]) = CandidateEnd

C6_CancelFreesInterval ==
    (ResolvedCreate /\ CancelledTwin /\ ~CandidateOverlaps) => CreatedAsRequested

C6_Witness == ResolvedCreate /\ CancelledTwin /\ ~CandidateOverlaps /\ CreatedAsRequested

-----------------------------------------------------------------------------
(* C8: for a staff member whose window on the requested weekday is 09:00   *)
(* to 17:00 and who has no appointments, on a date entirely in the future, *)
(* the availability response is exactly the 16 starts 09:00, 09:30, ...,   *)
(* 16:30 in ascending order.                                               *)

\* the answered query is for a barber whose window that day is 09:00-17:00
NineToFive ==
    /\ last.op = "availability"
    /\ last.status_code = 200
    /\ DaySchedule(barbers[last.barber_id], DayName(last.date))
         = [start |-> <<9, 0>>, end |-> <<17, 0>>]

\* the whole requested date is after the clock instant of the call
FutureDate == last.now < Combine(last.date, 0)

C8_ScenarioA ==
    (/\ NineToFive
     /\ FutureDate
     /\ \A i \in DOMAIN appointments : appointments[i].barber_id # last.barber_id)
    => last.slots = [k \in 1..16 |-> IsoFormat(Combine(last.date, 9 * 60 + (k - 1) * 30))]

C8_Witness ==
    /\ NineToFive
    /\ FutureDate
    /\ \A i \in DOMAIN appointments : appointments[i].barber_id # last.barber_id
    /\ Len(last.slots) = 16
    /\ last.slots[1] = <<last.date, 9, 0>>
    /\ last.slots[16] = <<last.date, 16, 30>>

-----------------------------------------------------------------------------
(* C9: with a confirmed appointment occupying 10:00 to 10:45 (45-minute    *)
(* service) for that staff member on that day, the availability response   *)
(* excludes 10:00 and 10:30 and 10:45 remains included.                    *)

\* the slot hh:mm of the requested date is in the response
SlotReturned(hh, mm) == \E k \in DOMAIN last.slots : last.slots[k] = <<last.date, hh, mm>>

\* the barber has a confirmed appointment 10:00-10:45 on the requested date
ConfirmedTenToQuarterTo ==
    \E i \in DOMAIN appointments :
        /\ appointments[i].barber_id = last.barber_id
        /\ appointments[i].status = CONFIRMED
        /\ appointments[i].scheduled_at = Combine(last.date, 10 * 60)
        /\ OccupiedEnd(appointments[i]) = Combine(last.date, 10 * 60 + 45)

\* no pending or confirmed appointment of the barber overlaps 11:00-11:30
ElevenFree ==
    \A i \in DOMAIN appointments :
        (Active(appointments[i]) /\ appointments[i].barber_id = last.barber_id)
        => ~Overlaps(Combine(last.date, 11 * 60), Combine(last.date, 11 * 60) + SlotMinutes,
                     appointments[i].scheduled_at, OccupiedEnd(appointments[i]))

\* the claim as stated
C9_ScenarioB_Stated ==
    (NineToFive /\ FutureDate /\ ConfirmedTenToQuarterTo)
    => (~SlotReturned(10, 0) /\ ~SlotReturned(10, 30) /\ SlotReturned(10, 45))

\* C9 as amended: 10:00 and 10:30 are excluded; 10:45 is not a candidate of
\* the 30-minute grid walked from 09:00 and is not returned; the next
\* candidate, 11:00, is included when no other active appointment overlaps it
C9_ScenarioB ==
    (NineToFive /\ FutureDate /\ ConfirmedTenToQuarterTo)
    => /\ ~SlotReturned(10, 0)
       /\ ~SlotReturned(10, 30)
       /\ ~SlotReturned(10, 45)
       /\ (ElevenFree => SlotReturned(11, 0))

C9_Witness ==
    /\ NineToFive
    /\ FutureDate
    /\ ConfirmedTenToQuarterTo
    /\ SlotReturned(9, 30)
    /\ ~SlotReturned(10, 30)
    /\ SlotReturned(11, 0)

-----------------------------------------------------------------------------
(* C10: two availability calls for the same staff member and date, made at *)
(* the same clock instant with no write in between, return the same        *)
(* sequence, whatever order the cursor yields the appointments in.         *)

C10_SameAnswer ==
    (last.op = "availability" /\ last.status_code = 200)
    => \A slots \in last.previous : last.slots = slots

\* a repeated query answered while two appointments were fetched for the day
C10_Witness ==
    /\ last.op = "availability"
    /\ last.status_code = 200
    /\ last.previous = {last.slots}
    /\ last.slots # <<>>
    /\ Cardinality(Fetched(last.barber_id, last.date)) >= 2

-----------------------------------------------------------------------------
(* C2: when two create requests for the same staff member and fully        *)
(* overlapping intervals are handled concurrently, exactly one succeeds    *)
(* and the other is refused as a scheduling conflict.                      *)

\* the request of p has been answered and its service and barber resolved
AnsweredResolved(p) == /\ pc[p] = "done"
                       /\ service[p] # None
                       /\ req[p].barber_id \in DOMAIN barbers

\* one of the two candidate intervals contains the other
FullyOverlapping(p, q) ==
    \/ /\ req[p].scheduled_at <= req[q].scheduled_at
       /\ AppointmentEnd(req[q], service[q]) <= AppointmentEnd(req[p], service[p])
    \/ /\ req[q].scheduled_at <= req[p].scheduled_at
       /\ AppointmentEnd(req[p], service[p]) <= AppointmentEnd(req[q], service[q])

Won(p) == resp[p].status_code = 200

Refused(p) == /\ resp[p].status_code = 400
              /\ resp[p].detail = <<400, "El barbero no esta disponible en ese horario">>

C2_ExactlyOneWins ==
    \A p, q \in Procs :
        (/\ p # q
         /\ AnsweredResolved(p)
         /\ AnsweredResolved(q)
         /\ req[p].raced
         /\ req[q].raced
         /\ req[p].barber_id = req[q].barber_id
         /\ FullyOverlapping(p, q))
        => \/ Won(p) /\ Refused(q)
           \/ Won(q) /\ Refused(p)

-----------------------------------------------------------------------------
(* Authorization and error kinds: create_appointment and                   *)
(* update_appointment_status under requests of every actor                 *)

BookingFor(client_id, barber_id, service_id, scheduled_at) ==
    [client_id |-> client_id, barber_id |-> barber_id, service_id |-> service_id,
     scheduled_at |-> scheduled_at]

\* a client books with barber b1; the barber ub2 books with the colleague b1;
\* a booking names a barber, and one a service, that do not exist
AuthBookings == {BookingFor("c1", "b1", "s1", <<1, 9, 30>>),
                 BookingFor("ub2", "b1", "s1", <<1, 11, 0>>),
                 BookingFor("c1", "b9", "s1", <<1, 9, 30>>),
                 BookingFor("c1", "b1", "s9", <<1, 9, 30>>)}

\* request bodies: the four statuses, a value outside them, an empty value
\* and a body without the key
StatusBodies == {[status |-> s] : s \in {PENDING, CONFIRMED, COMPLETED, CANCELLED, "done", ""}}
                \cup {[reason |-> "late"]}

\* every registered user on the first appointment and on an id that is never stored
AuthStatusRequests ==
    {StatusRequest(id, body, u) : id \in {1, MaxAppts + 1}, body \in StatusBodies,
                                  u \in {"ua", "c1", "c2", "ub1", "ub2"}}

NextAuth ==
    \/ \E body \in AuthBookings : CreateAppointment(body)
    \/ \E r \in AuthStatusRequests :
          UpdateAppointmentStatus(r.appointment_id, r.status_data, r.user_id)

SpecAuth == Init /\ [][NextAuth]_vars

\* the actor is an admin, the client the appointment is for, or the user of
\* the barber profile it is assigned to
Permitted(user_id, appointment) ==
    \/ users[user_id].role = ADMIN
    \/ appointment.client_id = user_id
    \/ \E b \in DOMAIN barbers :
          barbers[b].user_id = user_id /\ appointment.barber_id = b

\* the response is the 403 of the handler, as raised or as re-raised
Forbidden(response) ==
    \/ response.status_code = 403
    \/ response.status_code = 400 /\ response.detail = <<403, "No autorizado">>

\* the last step handled a status request with a valid value for a stored appointment
WellFormedStatusStep ==
    /\ last'.op = "status"
    /\ ~NotStatus(last'.status_data)
    /\ last'.status_data.status \in {PENDING, CONFIRMED, COMPLETED, CANCELLED}
    /\ last'.appointment_id \in DOMAIN appointments

\* C11: a status request is carried out exactly for an admin, the client the
\* appointment belongs to (whatever the role of that account) or the barber
\* assigned to it; for any other actor it fails as Forbidden and the
\* appointments are left unchanged
C11_PermittedExactly ==
    [][WellFormedStatusStep =>
          IF Permitted(last'.user_id, appointments[last'.appointment_id])
          THEN /\ last'.status_code = 200
               /\ appointments'[last'.appointment_id].status = last'.status_data.status
          ELSE /\ Forbidden(last')
               /\ appointments' = appointments]_vars

\* the body carries one of the four statuses
CarriesValidStatus(status_data) ==
    /\ "status" \in DOMAIN status_data
    /\ status_data.status \in {PENDING, CONFIRMED, COMPLETED, CANCELLED}

\* C12: after every step each stored appointment's status is one of pending,
\* confirmed, completed, cancelled (no appointment is stored initially), and a
\* status request whose body carries anything else fails and leaves the
\* appointments unchanged
C12_StatusInValidSet ==
    [][/\ \A i \in DOMAIN appointments' :
             appointments'[i].status \in {PENDING, CONFIRMED, COMPLETED, CANCELLED}
       /\ (last'.op = "status" /\ ~CarriesValidStatus(last'.status_data))
             => /\ last'.status_code # 200
                /\ appointments' = appointments]_vars

\* the admin's request to set "done" on a stored, confirmed appointment was refused
C12_Witness ==
    /\ last.op = "status"
    /\ last.status_data = [status |-> "done"]
    /\ last.user_id = "ua"
    /\ last.appointment_id \in DOMAIN appointments
    /\ appointments[last.appointment_id].status = CONFIRMED
    /\ last.status_code = 400

\* the edges of the status graph
TransitionEdges == {<<PENDING, CONFIRMED>>, <<PENDING, CANCELLED>>,
                    <<CONFIRMED, COMPLETED>>, <<CONFIRMED, CANCELLED>>}

\* C13: every change of an appointment's status follows one of the edges
\* pending->confirmed, pending->cancelled, confirmed->completed,
\* confirmed->cancelled, unless an admin made it; so an owning client or the
\* assigned barber never moves a completed or cancelled appointment back to
\* pending or confirmed
C13_TransitionGraph ==
    [][\A i \in DOMAIN appointments :
          appointments'[i].status # appointments[i].status
             => \/ <<appointments[i].status, appointments'[i].status>> \in TransitionEdges
                \/ last'.op = "status" /\ users[last'.user_id].role = ADMIN]_vars

\* the service id resolves to no stored, active service
NoActiveService(service_id) == service_id \notin DOMAIN services \/ ~services[service_id].active

\* the request body names a service or a barber that does not resolve
Unresolvable(body) == NoActiveService(body.service_id) \/ body.barber_id \notin DOMAIN barbers

\* C14: a create request whose service id resolves to no existing, active
\* service, or whose barber id resolves to no barber, fails with NotFound (404)
\* and no appointment is stored
C14_NotFoundOnMissing ==
    [][(last'.op = "create" /\ Unresolvable(last'.body))
          => /\ last'.status_code = 404
             /\ appointments' = appointments]_vars

\* C17: each failure of create_appointment and update_appointment_status
\* reaches the caller with its own kind: a missing service, barber or
\* appointment as 404, an actor who is neither admin, owner nor assigned
\* barber as 403, a conflict or an invalid status as a 400-class error
C17_StableKinds ==
    [][/\ (last'.op = "create" /\ Unresolvable(last'.body)) => last'.status_code = 404
       /\ (last'.op = "create" /\ ~Unresolvable(last'.body) /\ last'.status_code # 200)
             => last'.status_code \in 400..499 /\ last'.status_code \notin {403, 404}
       /\ (last'.op = "status" /\ ~CarriesValidStatus(last'.status_data))
             => last'.status_code \in 400..499 /\ last'.status_code \notin {403, 404}
       /\ (last'.op = "status" /\ CarriesValidStatus(last'.status_data)
             /\ last'.appointment_id \notin DOMAIN appointments)
             => last'.status_code = 404
       /\ (WellFormedStatusStep
             /\ ~Permitted(last'.user_id, appointments[last'.appointment_id]))
             => last'.status_code = 403]_vars

-----------------------------------------------------------------------------
(* update_service (server.py) and create_review, delete_review (reviews.py) *)

\* {"$set": fields}: the document with the fields written over it
SetFields(doc, fields) ==
    [f \in DOMAIN doc \cup DOMAIN fields |-> IF f \in DOMAIN fields THEN fields[f] ELSE doc[f]]

\* {"$unset": names}: the document without the named fields
UnsetFields(doc, names) == [f \in DOMAIN doc \ names |-> doc[f]]

\* ServiceCreate: the validated body; dict(exclude_unset=True) of it
ServiceCreate(body) == [duration_minutes |-> body.duration_minutes, price |-> body.price]

\* mutant of ServiceUpdate: the new price is written over the appointments of
\* the service as well
ServiceUpdateCascading(service_id, update_data) ==
    /\ services' = [services EXCEPT ![service_id] = SetFields(@, update_data)]
    /\ appointments' = [i \in DOMAIN appointments |->
                           IF appointments[i].service_id = service_id
                           THEN [appointments[i] EXCEPT !.total_price = update_data.price]
                           ELSE appointments[i]]

\* db.services.update_one({"_id": ObjectId(service_id)}, {"$set": update_data})
ServiceUpdate(service_id, update_data) ==
    /\ services' = [services EXCEPT ![service_id] = SetFields(@, update_data)]
    /\ appointments' = appointments

\* the error update_service raises, or None: the role check stands before the
\* try, the 404 of matched_count == 0 inside it
UpdateServiceError(service_id, user_id) ==
    IF users[user_id].role # ADMIN
       THEN HTTPException(403, "Solo administradores pueden actualizar servicios")
       ELSE IF service_id \notin DOMAIN services
       THEN Reraise(HTTPException(404, "Servicio no encontrado"))
       ELSE None

\* PUT /api/services/{service_id}
UpdateService(service_id, body, user_id) ==
    LET error == UpdateServiceError(service_id, user_id)
    IN /\ \A p \in DOMAIN pc : pc[p] = "idle"
       /\ IF error = None
          THEN /\ ServiceUpdate(service_id, ServiceCreate(body))
               /\ last' = [op |-> "update_service", service_id |-> service_id,
                           body |-> body, user_id |-> user_id, status_code |-> 200]
          ELSE /\ UNCHANGED <<services, appointments>>
               /\ last' = [op |-> "update_service", service_id |-> service_id,
                           body |-> body, user_id |-> user_id,
                           status_code |-> error.status_code, detail |-> error.detail]
       /\ UNCHANGED <<users, barbers, reviews, notifications, pc, req, service, resp>>

\* db.reviews.find_one({"appointment_id": appointment_id})
HasReview(appointment_id) ==
    \E k \in DOMAIN reviews : reviews[k].appointment_id = appointment_id

\* a find_one that leaves the status out of the filter
ReviewableAppointmentAnyStatus(appointment_id, user_id) ==
    /\ appointment_id \in DOMAIN appointments
    /\ appointments[appointment_id].client_id = user_id

\* the appointment create_review looks for: this id, this client, completed
ReviewableAppointment(appointment_id, user_id) ==
    /\ appointment_id \in DOMAIN appointments
    /\ appointments[appointment_id].client_id = user_id
    /\ appointments[appointment_id].status = COMPLETED

\* the error create_review raises, or None
CreateReviewError(review_data, user_id) ==
    IF ~ReviewableAppointment(review_data.appointment_id, user_id)
       THEN Reraise(HTTPException(404, "Cita no encontrada o no completada"))
       ELSE IF HasReview(review_data.appointment_id)
       THEN Reraise(HTTPException(400, "Ya has dejado una resena para esta cita"))
       ELSE None

\* the _id insert_one gives a review: an id no stored review has, here the least
NewReviewId == CHOOSE n \in 1..(Len(reviews) + 1) :
                  /\ \A k \in DOMAIN reviews : reviews[k]._id # n
                  /\ \A m \in 1..(n - 1) : \E k \in DOMAIN reviews : reviews[k]._id = m

\* review_dict: the body and the fields copied from the user and the appointment
ReviewDict(review_data, user_id) ==
    [_id |-> NewReviewId,
     appointment_id |-> review_data.appointment_id,
     rating |-> review_data.rating,
     client_id |-> user_id,
     barber_id |-> appointments[review_data.appointment_id].barber_id,
     service_id |-> appointments[review_data.appointment_id].service_id]

\* POST /api/reviews/.  The timestamps created_at and reviewed_at are left out.
CreateReview(review_data, user_id) ==
    LET error == CreateReviewError(review_data, user_id)
    IN /\ \A p \in DOMAIN pc : pc[p] = "idle"
       /\ IF error = None
          THEN /\ reviews' = Append(reviews, ReviewDict(review_data, user_id))
               /\ appointments' = [appointments EXCEPT ![review_data.appointment_id] =
                                      SetFields(@, [reviewed |-> TRUE])]
               /\ last' = [op |-> "create_review", review_data |-> review_data,
                           user_id |-> user_id, status_code |-> 200, id |-> NewReviewId]
          ELSE /\ UNCHANGED <<reviews, appointments>>
               /\ last' = [op |-> "create_review", review_data |-> review_data,
                           user_id |-> user_id,
                           status_code |-> error.status_code, detail |-> error.detail]
       /\ UNCHANGED <<users, barbers, services, notifications, pc, req, service, resp>>

\* db.reviews.find_one({"_id": ObjectId(review_id)}): its position, or 0
FindReview(review_id) ==
    IF \E k \in DOMAIN reviews : reviews[k]._id = review_id
    THEN CHOOSE k \in DOMAIN reviews : reviews[k]._id = review_id
    ELSE 0

\* the error delete_review raises, or None
DeleteReviewError(review_id, user_id) ==
    IF FindReview(review_id) = 0
       THEN Reraise(HTTPException(404, "Resena no encontrada"))
       ELSE IF users[user_id].role # ADMIN /\ reviews[FindReview(review_id)].client_id # user_id
       THEN Reraise(HTTPException(403, "No tienes permisos para eliminar esta resena"))
       ELSE None

\* db.reviews.delete_one({"_id": ObjectId(review_id)})
DeleteOne(collection, k) ==
    [j \in 1..(Len(collection) - 1) |-> IF j < k THEN collection[j] ELSE collection[j + 1]]

\* mutant of ClearReviewed: the reviewed appointment is deleted with its review
ClearReviewedDeleting(appointment_id) ==
    IF appointment_id \in DOMAIN appointments
    THEN DeleteOne(appointments, appointment_id)
    ELSE appointments

\* db.appointments.update_one({"_id": ...}, {"$unset": {"reviewed": "", "reviewed_at": ""}})
ClearReviewed(appointment_id) ==
    IF appointment_id \in DOMAIN appointments
    THEN [appointments EXCEPT ![appointment_id] = UnsetFields(@, {"reviewed"})]
    ELSE appointments

\* DELETE /api/reviews/{review_id}
DeleteReview(review_id, user_id) ==
    LET error == DeleteReviewError(review_id, user_id)
    IN /\ \A p \in DOMAIN pc : pc[p] = "idle"
       /\ IF error = None
          THEN /\ reviews' = DeleteOne(reviews, FindReview(review_id))
               /\ appointments' = ClearReviewed(reviews[FindReview(review_id)].appointment_id)
               /\ last' = [op |-> "delete_review", review_id |-> review_id,
                           user_id |-> user_id, status_code |-> 200]
          ELSE /\ UNCHANGED <<reviews, appointments>>
               /\ last' = [op |-> "delete_review", review_id |-> review_id,
                           user_id |-> user_id,
                           status_code |-> error.status_code, detail |-> error.detail]
       /\ UNCHANGED <<users, barbers, services, notifications, pc, req, service, resp>>

-----------------------------------------------------------------------------
(* The stores under create_appointment, update_appointment_status,          *)
(* update_service, create_review and delete_review                          *)

\* two clients book, one service s1 with barber b1, one service s2 with b2
StoreBookings == {BookingFor("c1", "b1", "s1", <<1, 9, 30>>),
                  BookingFor("c2", "b2", "s2", <<1, 9, 0>>)}

\* the admin completes or cancels an appointment; the owner of the first cancels it
StoreStatusRequests ==
    {StatusRequest(id, [status |-> s], "ua") : id \in 1..MaxAppts, s \in {COMPLETED, CANCELLED}}
    \cup {StatusRequest(1, [status |-> CANCELLED], "c1")}

ServiceUpdateRequest(service_id, body, user_id) ==
    [service_id |-> service_id, body |-> body, user_id |-> user_id]

\* the admin reprices service s1 to 30 and back to 25 and updates a service
\* that does not exist; a client tries to reprice s1
ServiceUpdateRequests ==
    {ServiceUpdateRequest("s1", [duration_minutes |-> 30, price |-> p], "ua") : p \in {25, 30}}
    \cup {ServiceUpdateRequest("s9", [duration_minutes |-> 30, price |-> 30], "ua"),
          ServiceUpdateRequest("s1", [duration_minutes |-> 30, price |-> 30], "c1")}

ReviewRequest(appointment_id, user_id) ==
    [review_data |-> [appointment_id |-> appointment_id, rating |-> 5], user_id |-> user_id]

\* the client c1 reviews the first and the second appointment, the client c2
\* the second
ReviewRequests == {ReviewRequest(1, "c1"), ReviewRequest(2, "c1"), ReviewRequest(2, "c2")}

ReviewDeletion(review_id, user_id) == [review_id |-> review_id, user_id |-> user_id]

\* the admin and the client c2 delete the first and the second review; the
\* admin deletes one that is never stored
ReviewDeletions ==
    {ReviewDeletion(id, u) : id \in {1, 2}, u \in {"ua", "c2"}}
    \cup {ReviewDeletion(3, "ua")}

NextStore ==
    \/ \E body \in StoreBookings : CreateAppointment(body)
    \/ \E r \in StoreStatusRequests :
          UpdateAppointmentStatus(r.appointment_id, r.status_data, r.user_id)
    \/ \E r \in ServiceUpdateRequests : UpdateService(r.service_id, r.body, r.user_id)
    \/ \E r \in ReviewRequests : CreateReview(r.review_data, r.user_id)
    \/ \E r \in ReviewDeletions : DeleteReview(r.review_id, r.user_id)

SpecStore == Init /\ [][NextStore]_vars

\* the instant a request body's scheduled_at denotes, in minutes
BodyInstant(body) ==
    body.scheduled_at[1] * 24 * 60 + body.scheduled_at[2] * 60 + body.scheduled_at[3]

\* C15: a successful create adds exactly one appointment, for the requested
\* client, barber, service and start, with status pending and total_price
\* equal to the service's price at that moment, and leaves every appointment
\* stored before as it was
C15_CreateAddsOne ==
    [][(last'.op = "create" /\ last'.status_code = 200)
          => /\ Len(appointments') = Len(appointments) + 1
             /\ \A i \in DOMAIN appointments : appointments'[i] = appointments[i]
             /\ last'.id = Len(appointments')
             /\ LET new == appointments'[Len(appointments')]
                IN /\ new.client_id = last'.body.client_id
                   /\ new.barber_id = last'.body.barber_id
                   /\ new.service_id = last'.body.service_id
                   /\ new.scheduled_at = BodyInstant(last'.body)
                   /\ new.status = PENDING
                   /\ new.total_price = services[last'.body.service_id].price]_vars

\* a second appointment was created for service s1 after s1 was repriced to
\* 30 and the first appointment was completed
C15_Witness ==
    /\ last.op = "create"
    /\ last.status_code = 200
    /\ last.id = 2
    /\ last.body.service_id = "s1"
    /\ services["s1"].price = 30
    /\ appointments[2].total_price = 30
    /\ appointments[1].status = COMPLETED

\* C16: no step changes the total_price of a stored appointment, so it stays
\* the service price taken at creation whatever is done to the service later
C16_PriceFrozen ==
    [][\A i \in DOMAIN appointments :
          /\ i \in DOMAIN appointments'
          /\ appointments'[i].total_price = appointments[i].total_price]_vars

\* the admin has just repriced a service of which an appointment is stored,
\* and the appointment's total_price is not the new price
C16_Witness ==
    /\ last.op = "update_service"
    /\ last.status_code = 200
    /\ \E i \in DOMAIN appointments :
          /\ appointments[i].service_id = last.service_id
          /\ appointments[i].total_price # services[last.service_id].price

\* the fields that identify an appointment
Identity(doc) == <<doc.client_id, doc.barber_id, doc.service_id, doc.scheduled_at>>

\* C20: no step removes an appointment: every stored appointment is stored
\* after the step under the same id with the same client, barber, service and
\* start, and a successful cancellation changes nothing but that status
C20_NeverRemoved ==
    [][/\ Len(appointments') >= Len(appointments)
       /\ \A i \in DOMAIN appointments :
             Identity(appointments'[i]) = Identity(appointments[i])
       /\ (last'.op = "status" /\ last'.status_code = 200
             /\ last'.status_data.status = CANCELLED)
             => appointments' =
                   [appointments EXCEPT ![last'.appointment_id].status = CANCELLED]]_vars

\* the review of a cancelled appointment has just been deleted and both
\* appointments are still stored
C20_Witness ==
    /\ last.op = "delete_review"
    /\ last.status_code = 200
    /\ Len(appointments) = 2
    /\ \E i \in DOMAIN appointments :
          /\ appointments[i].status = CANCELLED
          /\ "reviewed" \notin DOMAIN appointments[i]
          /\ ~HasReview(i)
    /\ \E i \in DOMAIN appointments : "reviewed" \in DOMAIN appointments[i]

-----------------------------------------------------------------------------
(* register_user and get_appointments *)

\* the _id insert_one gives the user registered with a phone, and the _id of
\* the barber profile created with it: ids no stored document has
NewUserId(phone) == IF phone = "095" THEN "n1" ELSE "n2"

NewBarberId(phone) == IF phone = "095" THEN "nb1" ELSE "nb2"

\* db.users.find_one({"phone": user_data.phone})
ExistingUser(phone) == \E u \in DOMAIN users : users[u].phone = phone

\* insert_one into a collection keyed by _id
InsertKeyed(collection, id, doc) ==
    [k \in DOMAIN collection \cup {id} |-> IF k = id THEN doc ELSE collection[k]]

\* the barber profile register_user creates for the role barber, else none
BarbersAfterRegister(user_data) ==
    IF user_data.role = BARBER
    THEN InsertKeyed(barbers, NewBarberId(user_data.phone),
                     [user_id |-> NewUserId(user_data.phone), schedule |-> <<>>])
    ELSE barbers

\* POST /api/auth/register: the role is any string the caller sends
RegisterUser(user_data) ==
    /\ \A p \in DOMAIN pc : pc[p] = "idle"
    /\ IF ExistingUser(user_data.phone)
       THEN /\ UNCHANGED <<users, barbers>>
            /\ last' = [op |-> "register", user_data |-> user_data, status_code |-> 400,
                        detail |-> "Usuario ya registrado con este telefono"]
       ELSE /\ users' = InsertKeyed(users, NewUserId(user_data.phone),
                                    [role |-> user_data.role, phone |-> user_data.phone])
            /\ barbers' = BarbersAfterRegister(user_data)
            /\ last' = [op |-> "register", user_data |-> user_data, status_code |-> 200,
                        id |-> NewUserId(user_data.phone)]
    /\ UNCHANGED <<services, appointments, reviews, notifications, pc, req, service, resp>>

\* the query get_appointments builds from the caller's role: a document matches
ListQuery(doc, user_id) ==
    IF users[user_id].role = CLIENT THEN doc.client_id = user_id
    ELSE IF users[user_id].role = BARBER /\ FindBarberIdByUser(user_id) # "none"
    THEN doc.barber_id = FindBarberIdByUser(user_id)
    ELSE TRUE

\* find(query).sort("scheduled_at", 1): the orders the cursor may yield
SortedOrders(ids) ==
    {o \in CursorOrders(ids) :
        \A k, l \in DOMAIN o :
           k < l => appointments[o[k]].scheduled_at <= appointments[o[l]].scheduled_at}

\* GET /api/appointments: the response lists the ids of the matching appointments
GetAppointments(user_id) ==
    /\ \A p \in DOMAIN pc : pc[p] = "idle"
    /\ \E order \in SortedOrders({i \in DOMAIN appointments :
                                     ListQuery(appointments[i], user_id)}) :
          last' = [op |-> "list", user_id |-> user_id, status_code |-> 200, ids |-> order]
    /\ UNCHANGED <<users, barbers, services, appointments, reviews, notifications, pc, req,
                   service, resp>>

\* registrations: two phones, each with the role client, barber, or a string
\* that is no role of the program
Registrations == {[phone |-> ph, role |-> r] : ph \in {"095", "096"}, r \in {CLIENT, BARBER, "vip"}}

\* bookings: of the client c1 with barber b1, of the client c2 with barber b2
\* and of the client c1 with the barber profile of the user registered as 095
ListBookings == {BookingFor("c1", "b1", "s1", <<1, 9, 30>>),
                 BookingFor("c2", "b2", "s2", <<1, 9, 0>>),
                 BookingFor("c1", "nb1", "s1", <<1, 9, 30>>)}

NextList ==
    \/ \E user_data \in Registrations : RegisterUser(user_data)
    \/ \E body \in ListBookings : CreateAppointment(body)
    \/ \E user_id \in DOMAIN users : GetAppointments(user_id)

SpecList == Init /\ [][NextList]_vars

\* the appointments the user is party to as client, and as assigned barber
OwnAsClient(user_id) == {i \in DOMAIN appointments : appointments[i].client_id = user_id}

OwnAsBarber(user_id) ==
    {i \in DOMAIN appointments :
        \E b \in DOMAIN barbers :
           barbers[b].user_id = user_id /\ appointments[i].barber_id = b}

\* C18: the list returned to a user who is not an admin holds only
\* appointments the user is party to: a client gets exactly those carrying
\* their client id, a barber exactly those assigned to their profile, and only
\* an admin gets all; whatever role string the account was registered with
C18_ListOnlyOwn ==
    (last.op = "list" /\ last.status_code = 200)
       => LET returned == {last.ids[k] : k \in DOMAIN last.ids}
              role == users[last.user_id].role
          IN /\ role = ADMIN => returned = DOMAIN appointments
             /\ role = CLIENT => returned = OwnAsClient(last.user_id)
             /\ role = BARBER => returned = OwnAsBarber(last.user_id)
             /\ role # ADMIN
                   => returned \subseteq OwnAsClient(last.user_id) \cup OwnAsBarber(last.user_id)

-----------------------------------------------------------------------------
(* notifications.py: create_notification, send_test_notification and       *)
(* send_review_requests.  send_appointment_notifications (notifications.py *)
(* line 82) has no caller in the program and is no step of it.             *)

\* the keys of DEFAULT_TEMPLATES
TemplateTypes == {"appointment_confirmed", "appointment_reminder", "appointment_cancelled",
                  "review_request", "appointment_created", "barber_new_appointment"}

\* create_notification: the documents it inserts, none without a template
CreateNotification(user_id, notification_type, appointment_id) ==
    IF notification_type \in TemplateTypes
    THEN <<[user_id |-> user_id, type |-> notification_type,
            appointment_id |-> appointment_id, is_read |-> FALSE]>>
    ELSE <<>>

\* POST /api/notifications/send-test: the type "test" has no template
SendTestNotification(user_id) ==
    /\ \A p \in DOMAIN pc : pc[p] = "idle"
    /\ IF users[user_id].role # ADMIN
       THEN /\ notifications' = notifications
            /\ last' = [op |-> "send_test", user_id |-> user_id, status_code |-> 403,
                        detail |-> "Solo administradores pueden enviar notificaciones de prueba"]
       ELSE /\ notifications' = notifications \o CreateNotification(user_id, "test", None)
            /\ last' = [op |-> "send_test", user_id |-> user_id, status_code |-> 200]
    /\ UNCHANGED <<users, barbers, services, appointments, reviews, pc, req, service, resp>>

\* {"$ne": True} on a field the document may not have
NotTrue(doc, f) == f \notin DOMAIN doc \/ doc[f] # TRUE

\* the filter of send_review_requests: completed, scheduled 24 to 48 hours ago,
\* not reviewed, no request sent
ReviewRequestFilter(doc, now) ==
    /\ doc.status = COMPLETED
    /\ doc.scheduled_at >= now - 2 * MinutesPerDay
    /\ doc.scheduled_at <= now - MinutesPerDay
    /\ NotTrue(doc, "reviewed")
    /\ NotTrue(doc, "review_request_sent")

\* all([client, barber_user, service]) for an appointment
RelatedFound(doc) ==
    /\ doc.client_id \in DOMAIN users
    /\ doc.barber_id \in DOMAIN barbers
    /\ barbers[doc.barber_id].user_id \in DOMAIN users
    /\ doc.service_id \in DOMAIN services

\* the notifications the loop of send_review_requests inserts, in cursor order
RECURSIVE ReviewRequestNotifications(_)
ReviewRequestNotifications(order) ==
    IF order = <<>> THEN <<>>
    ELSE (IF RelatedFound(appointments[Head(order)])
          THEN CreateNotification(appointments[Head(order)].client_id, "review_request",
                                  Head(order))
          ELSE <<>>) \o ReviewRequestNotifications(Tail(order))

\* send_review_requests(db) over the appointments the cursor yields
SendReviewRequests(order) ==
    /\ notifications' = notifications \o ReviewRequestNotifications(order)
    /\ appointments' = [i \in DOMAIN appointments |->
                           IF (\E k \in DOMAIN order : order[k] = i)
                                 /\ RelatedFound(appointments[i])
                           THEN SetFields(appointments[i], [review_request_sent |-> TRUE])
                           ELSE appointments[i]]

\* POST /api/notifications/send-review-requests at the instant now
TriggerReviewRequests(user_id, now, order) ==
    /\ \A p \in DOMAIN pc : pc[p] = "idle"
    /\ IF users[user_id].role # ADMIN
       THEN /\ UNCHANGED <<notifications, appointments>>
            /\ last' = [op |-> "review_requests", user_id |-> user_id, now |-> now,
                        status_code |-> 403,
                        detail |-> "Solo administradores pueden ejecutar esta accion"]
       ELSE /\ SendReviewRequests(order)
            /\ last' = [op |-> "review_requests", user_id |-> user_id, now |-> now,
                        status_code |-> 200]
    /\ UNCHANGED <<users, barbers, services, reviews, pc, req, service, resp>>

\* the client c1 books with barber b1, Monday 09:30 and Monday 11:00
NotifyBookings == {BookingFor("c1", "b1", "s1", <<1, 9, 30>>),
                   BookingFor("c1", "b1", "s1", <<1, 11, 0>>)}

\* the admin confirms and completes appointments
NotifyStatusRequests ==
    {StatusRequest(id, [status |-> s], "ua") : id \in 1..MaxAppts, s \in {CONFIRMED, COMPLETED}}

\* Monday 12:00 and Tuesday 12:00
NotifyInstants == {MinutesPerDay + 12 * 60, 2 * MinutesPerDay + 12 * 60}

NextNotify ==
    \/ \E body \in NotifyBookings : CreateAppointment(body)
    \/ \E r \in NotifyStatusRequests :
          UpdateAppointmentStatus(r.appointment_id, r.status_data, r.user_id)
    \/ \E user_id \in {"ua", "c1"} : SendTestNotification(user_id)
    \/ \E user_id \in {"ua", "c1"}, now \in NotifyInstants :
          \E order \in CursorOrders({i \in DOMAIN appointments :
                                        ReviewRequestFilter(appointments[i], now)}) :
             TriggerReviewRequests(user_id, now, order)

\* The event loop runs every handler that is invoked to its end, and requests
\* keep arriving: the server never stops serving.
SpecNotify == Init /\ [][NextNotify]_vars /\ WF_vars(NextNotify)

\* a notification about the appointment is stored for the user
NotifiedAbout(user_id, appointment_id) ==
    \E k \in DOMAIN notifications :
       /\ notifications[k].user_id = user_id
       /\ notifications[k].appointment_id = appointment_id

\* C19: once an appointment is created, a notification about it for its
\* client and a notification about it for the user of its barber eventually
\* exist
C19_CreatedNotified ==
    \A i \in 1..MaxAppts :
       (i \in DOMAIN appointments)
          ~> (/\ i \in DOMAIN appointments
              /\ NotifiedAbout(appointments[i].client_id, i)
              /\ NotifiedAbout(barbers[appointments[i].barber_id].user_id, i))

-----------------------------------------------------------------------------
(* The slot generator under bookings on days with and without a window and *)
(* under updates of a service's duration                                   *)

\* barber b1 is booked on Monday 09:30 and on Wednesday 09:30, a weekday for
\* which b1 has no window; barber b2 is booked on Monday 09:00
SlotBookings == {BookingFor("c1", "b1", "s1", <<1, 9, 30>>),
                 BookingFor("c1", "b1", "s1", <<3, 9, 30>>),
                 BookingFor("c2", "b2", "s2", <<1, 9, 0>>)}

\* the admin cancels and confirms the first appointment
SlotStatusRequests == {StatusRequest(1, [status |-> s], "ua") : s \in {CANCELLED, CONFIRMED}}

\* the admin sets the duration of service s1 to 60 minutes and back to 30
SlotServiceUpdates ==
    {ServiceUpdateRequest("s1", [duration_minutes |-> d, price |-> 25], "ua") : d \in {30, 60}}

\* queries sent on Sunday 12:00 for b1 on Monday and Wednesday and for b2 on
\* Monday and Tuesday, and on Monday 09:45 for b1 on Monday
SlotQueries ==
    {AvailabilityQuery("b1", 1, now) : now \in Instants}
    \cup {AvailabilityQuery("b1", 3, 12 * 60), AvailabilityQuery("b2", 1, 12 * 60),
          AvailabilityQuery("b2", 2, 12 * 60)}

NextSlots ==
    \/ \E body \in SlotBookings : CreateAppointment(body)
    \/ \E r \in SlotStatusRequests :
          UpdateAppointmentStatus(r.appointment_id, r.status_data, r.user_id)
    \/ \E r \in SlotServiceUpdates : UpdateService(r.service_id, r.body, r.user_id)
    \/ \E q \in SlotQueries :
          \E order \in CursorOrders(Fetched(q.barber_id, q.date)) :
             GetBarberAvailability(q.barber_id, q.date, q.now, order)

SpecSlots == Init /\ [][NextSlots]_vars

\* the instant a returned slot denotes, in minutes
SlotInstant(slot) == slot[1] * MinutesPerDay + slot[2] * 60 + slot[3]

\* C21: every slot start t of a response satisfies open <= t and
\* t + 30 minutes <= close for the barber's window of that weekday, also when
\* the window's length is no multiple of 30 minutes
C21_SlotsInsideWindow ==
    (last.op = "availability" /\ last.status_code = 200)
       => \A k \in DOMAIN last.slots :
             InsideWindow(last.barber_id, SlotInstant(last.slots[k]),
                          SlotInstant(last.slots[k]) + 30)

\* the interval an appointment blocks in the slot generator: the entry of the
\* busy list built for it
BlockedInterval(i) == <<appointments[i].scheduled_at,
                        appointments[i].scheduled_at + Duration(appointments[i])>>

\* the end instant an appointment contributes to the conflict query of
\* create_appointment
ConflictQueryEnd(i) ==
    AggAdd(FieldPath(appointments[i], "scheduled_at"),
           AggMultiply(FieldPath(appointments[i], "duration_minutes"), BNum(MsPerMinute)))

\* C22: the interval a stored appointment blocks, in the conflict query of
\* create_appointment and in the slot generator, is the same after every step
\* as before it; an update of the service's duration does not change it
C22_BlockedIntervalFixed ==
    [][\A i \in DOMAIN appointments :
          /\ BlockedInterval(i)' = BlockedInterval(i)
          /\ ConflictQueryEnd(i)' = ConflictQueryEnd(i)]_vars

-----------------------------------------------------------------------------
(* Status changes that bring a cancelled or completed appointment back *)

\* two clients book overlapping times with barber b1: 09:30-10:00 and 09:00-09:45
ReactivationBookings == {BookingFor("c1", "b1", "s1", <<1, 9, 30>>),
                         BookingFor("c2", "b1", "s2", <<1, 9, 0>>)}

\* the admin cancels or completes an appointment
Deactivations ==
    {StatusRequest(id, [status |-> s], "ua") : id \in 1..MaxAppts, s \in {CANCELLED, COMPLETED}}

\* the admin, the client c1 and the barber of b1 set an appointment that is
\* cancelled or completed to pending or confirmed
Reactivations ==
    {r \in {StatusRequest(id, [status |-> s], u) :
               id \in DOMAIN appointments, s \in {PENDING, CONFIRMED}, u \in {"ua", "c1", "ub1"}} :
        appointments[r.appointment_id].status \in {CANCELLED, COMPLETED}}

NextReactivation ==
    \/ \E body \in ReactivationBookings : CreateAppointment(body)
    \/ \E r \in Deactivations :
          UpdateAppointmentStatus(r.appointment_id, r.status_data, r.user_id)
    \/ \E r \in Reactivations :
          UpdateAppointmentStatus(r.appointment_id, r.status_data, r.user_id)

SpecReactivation == Init /\ [][NextReactivation]_vars

\* another pending or confirmed appointment of the same barber overlaps appointment i
OverlappedByActive(i) ==
    \E j \in DOMAIN appointments :
       /\ j # i
       /\ appointments[j].barber_id = appointments[i].barber_id
       /\ Active(appointments[j])
       /\ Overlaps(appointments[i].scheduled_at, OccupiedEnd(appointments[i]),
                   appointments[j].scheduled_at, OccupiedEnd(appointments[j]))

\* C23: a status request of an actor the handler authorizes that moves a
\* cancelled or completed appointment to pending or confirmed succeeds and
\* stores the new status, whether or not the appointment overlaps another
\* pending or confirmed appointment of the barber
C23_ReactivationUnchecked ==
    [][(/\ last'.op = "status"
        /\ CarriesValidStatus(last'.status_data)
        /\ last'.status_data.status \in {PENDING, CONFIRMED}
        /\ last'.appointment_id \in DOMAIN appointments
        /\ appointments[last'.appointment_id].status \in {CANCELLED, COMPLETED}
        /\ CanUpdate(last'.user_id, appointments[last'.appointment_id]))
          => /\ last'.status_code = 200
             /\ appointments'[last'.appointment_id].status = last'.status_data.status]_vars

\* an appointment was just set to pending or confirmed, which in this
\* specification is requested only for cancelled or completed appointments,
\* and it overlaps another pending or confirmed appointment of its barber
C23_Witness ==
    /\ last.op = "status"
    /\ last.status_code = 200
    /\ last.status_data.status \in {PENDING, CONFIRMED}
    /\ appointments[last.appointment_id].status = last.status_data.status
    /\ OverlappedByActive(last.appointment_id)

-----------------------------------------------------------------------------
(* C24: a successful status request changes the status of the targeted     *)
(* appointment and nothing else: its client, barber, service, start,       *)
(* total_price and review flag, and every other appointment, are as before *)

C24_StatusOnly ==
    [][(last'.op = "status" /\ last'.status_code = 200)
          => /\ DOMAIN appointments' = DOMAIN appointments
             /\ \A i \in DOMAIN appointments :
                   IF i = last'.appointment_id
                   THEN /\ DOMAIN appointments'[i] = DOMAIN appointments[i]
                        /\ \A f \in DOMAIN appointments[i] \ {"status"} :
                              appointments'[i][f] = appointments[i][f]
                        /\ appointments'[i].status = last'.status_data.status
                   ELSE appointments'[i] = appointments[i]]_vars

\* the admin has just cancelled the second appointment, whose client also
\* owns the first one: the first keeps its status completed and its review flag
C24_Witness ==
    /\ last.op = "status"
    /\ last.status_code = 200
    /\ last.appointment_id = 2
    /\ last.status_data.status = CANCELLED
    /\ Len(appointments) = 2
    /\ appointments[1].client_id = appointments[2].client_id
    /\ appointments[1].status = COMPLETED
    /\ "reviewed" \in DOMAIN appointments[1]
    /\ appointments[2].status = CANCELLED

-----------------------------------------------------------------------------
(* C25: every slot start of an availability response is strictly after the *)
(* clock instant of the call                                               *)

C25_SlotsAfterNow ==
    (last.op = "availability" /\ last.status_code = 200)
       => \A k \in DOMAIN last.slots : SlotInstant(last.slots[k]) > last.now

\* asked on Monday 09:45 for that Monday, barber b1 (09:00 to 17:00) has
\* slots left, none of them at 09:00 or 09:30
C25_Witness ==
    /\ last.op = "availability"
    /\ last.status_code = 200
    /\ last.barber_id = "b1"
    /\ last.date = 1
    /\ last.now = 24 * 60 + 9 * 60 + 45
    /\ last.slots # <<>>
    /\ last.slots[1] = <<1, 10, 0>>

\* the barber of the last availability request has no window on the weekday
\* of the requested date
NoWindowRequested ==
    /\ last.op = "availability"
    /\ last.barber_id \in DOMAIN barbers
    /\ WeekdayNames[(last.date % 7) + 1] \notin DOMAIN barbers[last.barber_id].schedule

\* C26: when the barber has no window for the weekday of the requested date
\* the response is the empty sequence, whatever appointments are stored
C26_NoWindowNoSlots ==
    NoWindowRequested => (last.status_code = 200 /\ last.slots = <<>>)

\* barber b1 has no window on Wednesday, holds a pending appointment on that
\* Wednesday, and the response for it is empty
C26_Witness ==
    /\ NoWindowRequested
    /\ last.date = 3
    /\ last.slots = <<>>
    /\ \E i \in DOMAIN appointments :
          /\ appointments[i].barber_id = last.barber_id
          /\ appointments[i].scheduled_at \div (24 * 60) = 3
          /\ appointments[i].status = PENDING

-----------------------------------------------------------------------------
(* register_user, one step per await, for requests handled concurrently *)

\* the _id insert_one gives the user, and the barber profile, a request
\* inserts: ids no stored document has, one per request
RaceUserId(p) == IF p = "r1" THEN "n1" ELSE "n2"

RaceBarberId(p) == IF p = "r1" THEN "nb1" ELSE "nb2"

\* the request arrives
RegisterStart(p, user_data) ==
    /\ pc[p] = "idle"
    /\ pc' = [pc EXCEPT ![p] = "find_user"]
    /\ req' = [req EXCEPT ![p] = user_data]
    /\ UNCHANGED <<users, barbers, services, appointments, reviews, notifications, last,
                   service, resp>>

\* existing_user = await db.users.find_one({"phone": user_data.phone})
RegisterFindUser(p) ==
    /\ pc[p] = "find_user"
    /\ IF ExistingUser(req[p].phone)
       THEN /\ resp' = [resp EXCEPT ![p] =
                           HTTPException(400, "Usuario ya registrado con este telefono")]
            /\ pc' = [pc EXCEPT ![p] = "done"]
       ELSE /\ resp' = resp
            /\ pc' = [pc EXCEPT ![p] = "insert_user"]
    /\ UNCHANGED <<users, barbers, services, appointments, reviews, notifications, last,
                   req, service>>

\* result = await db.users.insert_one(user_dict)
RegisterInsertUser(p) ==
    /\ pc[p] = "insert_user"
    /\ users' = InsertKeyed(users, RaceUserId(p),
                            [role |-> req[p].role, phone |-> req[p].phone])
    /\ IF req[p].role = BARBER
       THEN /\ resp' = resp
            /\ pc' = [pc EXCEPT ![p] = "insert_barber"]
       ELSE /\ resp' = [resp EXCEPT ![p] = [status_code |-> 200, id |-> RaceUserId(p)]]
            /\ pc' = [pc EXCEPT ![p] = "done"]
    /\ UNCHANGED <<barbers, services, appointments, reviews, notifications, last, req,
                   service>>

\* await db.barbers.insert_one(barber_data)
RegisterInsertBarber(p) ==
    /\ pc[p] = "insert_barber"
    /\ barbers' = InsertKeyed(barbers, RaceBarberId(p),
                              [user_id |-> RaceUserId(p), schedule |-> <<>>])
    /\ resp' = [resp EXCEPT ![p] = [status_code |-> 200, id |-> RaceUserId(p)]]
    /\ pc' = [pc EXCEPT ![p] = "done"]
    /\ UNCHANGED <<users, services, appointments, reviews, notifications, last, req,
                   service>>

\* concurrent registrations: two new phones and the phone of the client c1,
\* as client or as barber
RaceRegistrations ==
    {[phone |-> ph, role |-> r] : ph \in {"095", "096", "091"}, r \in {CLIENT, BARBER}}

NextRegisterRace ==
    \/ \E p \in Procs, user_data \in RaceRegistrations : RegisterStart(p, user_data)
    \/ \E p \in Procs : RegisterFindUser(p)
    \/ \E p \in Procs : RegisterInsertUser(p)
    \/ \E p \in Procs : RegisterInsertBarber(p)

SpecRegisterRace == Init /\ [][NextRegisterRace]_vars

\* C30: no two user accounts have the same phone number, also when two
\* registrations for one phone are handled concurrently
C30_PhoneUnique ==
    \A u, v \in DOMAIN users : u # v => users[u].phone # users[v].phone

-----------------------------------------------------------------------------
(* create_review, one step per await, for requests handled concurrently *)

\* the request arrives
ReviewStart(p, review_data, user_id) ==
    /\ pc[p] = "idle"
    /\ pc' = [pc EXCEPT ![p] = "find_appointment"]
    /\ req' = [req EXCEPT ![p] = [review_data |-> review_data, user_id |-> user_id]]
    /\ UNCHANGED <<users, barbers, services, appointments, reviews, notifications, last,
                   service, resp>>

\* appointment = await db.appointments.find_one({_id, client_id, status: completed})
ReviewFindAppointment(p) ==
    /\ pc[p] = "find_appointment"
    /\ IF ~ReviewableAppointment(req[p].review_data.appointment_id, req[p].user_id)
       THEN /\ resp' = [resp EXCEPT ![p] =
                           Reraise(HTTPException(404, "Cita no encontrada o no completada"))]
            /\ pc' = [pc EXCEPT ![p] = "done"]
       ELSE /\ resp' = resp
            /\ pc' = [pc EXCEPT ![p] = "find_review"]
    /\ UNCHANGED <<users, barbers, services, appointments, reviews, notifications, last,
                   req, service>>

\* existing_review = await db.reviews.find_one({"appointment_id": ...})
ReviewFindExisting(p) ==
    /\ pc[p] = "find_review"
    /\ IF HasReview(req[p].review_data.appointment_id)
       THEN /\ resp' = [resp EXCEPT ![p] =
                           Reraise(HTTPException(400, "Ya has dejado una resena para esta cita"))]
            /\ pc' = [pc EXCEPT ![p] = "done"]
       ELSE /\ resp' = resp
            /\ pc' = [pc EXCEPT ![p] = "insert_review"]
    /\ UNCHANGED <<users, barbers, services, appointments, reviews, notifications, last,
                   req, service>>

\* result = await db.reviews.insert_one(review_dict); the barber_id and
\* service_id copied from the appointment read before are never rewritten
ReviewInsertOne(p) ==
    /\ pc[p] = "insert_review"
    /\ reviews' = Append(reviews, ReviewDict(req[p].review_data, req[p].user_id))
    /\ resp' = [resp EXCEPT ![p] = [status_code |-> 200, id |-> NewReviewId]]
    /\ pc' = [pc EXCEPT ![p] = "mark_reviewed"]
    /\ UNCHANGED <<users, barbers, services, appointments, notifications, last, req, service>>

\* await db.appointments.update_one({_id}, {"$set": {"reviewed": True, ...}})
ReviewMarkReviewed(p) ==
    /\ pc[p] = "mark_reviewed"
    /\ appointments' = [appointments EXCEPT ![req[p].review_data.appointment_id] =
                           SetFields(@, [reviewed |-> TRUE])]
    /\ pc' = [pc EXCEPT ![p] = "done"]
    /\ UNCHANGED <<users, barbers, services, reviews, notifications, last, req, service,
                   resp>>

\* the admin completes an appointment
CompletionRequests == {StatusRequest(id, [status |-> COMPLETED], "ua") : id \in 1..MaxAppts}

\* concurrent review requests: the client c1 on the first and on the second
\* appointment, the client c2 on the first
RaceReviews == {ReviewRequest(1, "c1"), ReviewRequest(2, "c1"), ReviewRequest(1, "c2")}

\* appointments are booked and completed before the review requests arrive
NextReviewRace ==
    \/ \E body \in StoreBookings : CreateAppointment(body)
    \/ \E r \in CompletionRequests :
          UpdateAppointmentStatus(r.appointment_id, r.status_data, r.user_id)
    \/ \E p \in Procs, r \in RaceReviews : ReviewStart(p, r.review_data, r.user_id)
    \/ \E p \in Procs : ReviewFindAppointment(p)
    \/ \E p \in Procs : ReviewFindExisting(p)
    \/ \E p \in Procs : ReviewInsertOne(p)
    \/ \E p \in Procs : ReviewMarkReviewed(p)

SpecReviewRace == Init /\ [][NextReviewRace]_vars

\* the reviews stored for an appointment
ReviewsOf(appointment_id) ==
    {k \in DOMAIN reviews : reviews[k].appointment_id = appointment_id}

\* C27: at most one review is stored per appointment, over any sequence of
\* create_review requests and when two requests for one appointment are
\* handled concurrently
C27_OneReviewPerAppointment ==
    \A i \in DOMAIN appointments : Cardinality(ReviewsOf(i)) <= 1

-----------------------------------------------------------------------------
(* Who may review what *)

\* the appointment exists, is completed, and its client is this user
CompletedOwn(appointment_id, user_id) ==
    /\ appointment_id \in DOMAIN appointments
    /\ appointments[appointment_id].status = COMPLETED
    /\ appointments[appointment_id].client_id = user_id

\* C28: a create_review request stores a review only for a completed
\* appointment whose client is the requesting user; for any other appointment
\* the request fails, stores no review and leaves the appointment unmarked
C28_ReviewOnlyCompletedOwn ==
    [][last'.op = "create_review" =>
          LET a == last'.review_data.appointment_id
              u == last'.user_id
          IN /\ reviews' # reviews => CompletedOwn(a, u) /\ last'.status_code = 200
             /\ ~CompletedOwn(a, u) =>
                   /\ last'.status_code # 200
                   /\ reviews' = reviews
                   /\ appointments' = appointments]_vars

\* a client's review of their own appointment that is not completed was
\* refused: no review of it is stored and it is not marked reviewed
C28_Witness ==
    /\ last.op = "create_review"
    /\ last.status_code # 200
    /\ last.review_data.appointment_id \in DOMAIN appointments
    /\ LET doc == appointments[last.review_data.appointment_id]
       IN /\ doc.client_id = last.user_id
          /\ doc.status # COMPLETED
          /\ NotTrue(doc, "reviewed")
    /\ ~HasReview(last.review_data.appointment_id)

-----------------------------------------------------------------------------
(* get_appointment_reminders, one step per await, for calls handled
   concurrently; now is datetime.utcnow() of the call *)

ReminderWindowMinutes == 30

\* the filter of the find: scheduled 24 hours from now give or take half an
\* hour, pending or confirmed, reminder_sent not true
ReminderFilter(doc, now) ==
    /\ doc.scheduled_at >= now + MinutesPerDay - ReminderWindowMinutes
    /\ doc.scheduled_at <= now + MinutesPerDay + ReminderWindowMinutes
    /\ doc.status \in {PENDING, CONFIRMED}
    /\ NotTrue(doc, "reminder_sent")

\* the ids among 1..n that pass the filter, in the collection's order
RECURSIVE ReminderCursor(_, _)
ReminderCursor(n, now) ==
    IF n = 0 THEN <<>>
    ELSE ReminderCursor(n - 1, now)
            \o (IF ReminderFilter(appointments[n], now) THEN <<n>> ELSE <<>>)

\* the appointment_id of each reminder built from the documents found: those
\* whose client, barber user and service are all found
RECURSIVE ReminderIds(_)
ReminderIds(found) ==
    IF found = <<>> THEN <<>>
    ELSE (IF RelatedFound(appointments[Head(found)]) THEN <<Head(found)>> ELSE <<>>)
            \o ReminderIds(Tail(found))

\* the call arrives and reads the clock
ReminderStart(p, now) ==
    /\ pc[p] = "idle"
    /\ pc' = [pc EXCEPT ![p] = "find_appointments"]
    /\ req' = [req EXCEPT ![p] = [now |-> now]]
    /\ UNCHANGED <<users, barbers, services, appointments, reviews, notifications, last,
                   service, resp>>

\* appointments = await db.appointments.find({...}).to_list(length=None)
ReminderFind(p) ==
    /\ pc[p] = "find_appointments"
    /\ req' = [req EXCEPT ![p] =
                  [now |-> req[p].now, found |-> ReminderCursor(Len(appointments), req[p].now)]]
    /\ pc' = [pc EXCEPT ![p] = "find_related"]
    /\ UNCHANGED <<users, barbers, services, appointments, reviews, notifications, last,
                   service, resp>>

\* the loop over the documents found; with no reminder the call returns here
ReminderFindRelated(p) ==
    /\ pc[p] = "find_related"
    /\ LET reminders == ReminderIds(req[p].found)
       IN /\ resp' = [resp EXCEPT ![p] = [status_code |-> 200, reminders |-> reminders]]
          /\ pc' = [pc EXCEPT ![p] = IF reminders # <<>> THEN "update_many" ELSE "done"]
    /\ UNCHANGED <<users, barbers, services, appointments, reviews, notifications, last,
                   req, service>>

\* await db.appointments.update_many({_id in ids}, {"$set": {"reminder_sent": True}});
\* return reminders
ReminderUpdateMany(p) ==
    /\ pc[p] = "update_many"
    /\ appointments' = [i \in DOMAIN appointments |->
                           IF \E k \in DOMAIN resp[p].reminders : resp[p].reminders[k] = i
                              THEN SetFields(appointments[i], [reminder_sent |-> TRUE])
                              ELSE appointments[i]]
    /\ pc' = [pc EXCEPT ![p] = "done"]
    /\ UNCHANGED <<users, barbers, services, reviews, notifications, last, req, service,
                   resp>>

\* the admin confirms or cancels an appointment
ReminderStatusRequests ==
    {StatusRequest(id, [status |-> s], "ua") : id \in 1..MaxAppts, s \in {CONFIRMED, CANCELLED}}

\* Sunday 09:15, a day before the bookings of Monday 09:00 and 09:30, and
\* Sunday 12:00, a day before none
ReminderInstants == {9 * 60 + 15, 12 * 60}

\* appointments are booked and their status set before the calls arrive
NextReminderRace ==
    \/ \E body \in StoreBookings : CreateAppointment(body)
    \/ \E r \in ReminderStatusRequests :
          UpdateAppointmentStatus(r.appointment_id, r.status_data, r.user_id)
    \/ \E p \in Procs, now \in ReminderInstants : ReminderStart(p, now)
    \/ \E p \in Procs : ReminderFind(p)
    \/ \E p \in Procs : ReminderFindRelated(p)
    \/ \E p \in Procs : ReminderUpdateMany(p)

SpecReminderRace == Init /\ [][NextReminderRace]_vars

\* the appointments a finished call returned
Returned(p) ==
    IF pc[p] = "done" THEN {resp[p].reminders[k] : k \in DOMAIN resp[p].reminders} ELSE {}

\* C29: no appointment is returned by two calls of the reminders endpoint,
\* whether one call follows the other or the two run concurrently
C29_ReturnedOnce ==
    \A p, q \in Procs : p # q => Returned(p) \cap Returned(q) = {}

=============================================================================
